---- MODULE Spec2Model ----
(***************************************************************************)
(* Model of hashi.c: the board of islands and connections, its             *)
(* construction by add_island, the bridge operations add_bridge and        *)
(* del_bridge, and the backtracking search find_solutions_from_island      *)
(* with its connectivity check.                                            *)
(*                                                                         *)
(* Pointers are modelled as indices into the board's arrays: an island     *)
(* pointer is its index in board.islands, a connection pointer its index   *)
(* in board.connections, and OUT stands for &board.out_island_st and       *)
(* &board.out_connection_st.  A linked list of hcrosselem is the sequence  *)
(* of the connections whose bridges its elements point at, first element   *)
(* first.                                                                  *)
(***************************************************************************)
EXTENDS Integers, Sequences, FiniteSets, TLC

\* ------------------------------------------------------------ bounds
\* The rows and columns of the grid the islands are placed on.
GridRows == 0 .. 2
GridCols == 0 .. 2
\* The build stops offering islands once MaxIslands are stored.
MaxIslands == 4
\* The same for the boards that take every expected count.
WideMaxIslands == 2
\* The expected counts of the islands placed on the grid.
GridExpects == 1 .. 3

\* The grid, the number of islands and the expected counts of the boards
\* that are only built.
BuildRows == 0 .. 3
BuildCols == 0 .. 3
BuildMaxIslands == 6
BuildExpects == 2 .. 2

\* ------------------------------------------------------------ constants
UP == 0
LEFT == 1
RIGHT == 2
DOWN == 3
DIRECTIONS == 4
MAX_CONNECTION_BRIDGES == 2
MAX_EXPECTED_BRIDGES == MAX_CONNECTION_BRIDGES * DIRECTIONS
MAX_ISLANDS == 150
MAX_CONNECTIONS == 300
MAX_CROSSELEMS == 300
MAX_VISITED_SIZE == 10000
CHAR_MAX == 127
\* The address of the "outside" island / connection.
OUT == -1

Dirs == 0 .. (DIRECTIONS - 1)

\* ------------------------------------------------------------ state
VARIABLES
    board,      \* the hboard
    pc,         \* where main and the search are
    idx,        \* idx of the running find_solutions_from_island call
    stack,      \* per open call of the search: the state at its entry
    emitted,    \* the boards printed by the running search, in order
    firstrun,   \* the boards printed by the first search, once it is over
    run,        \* 1 during the first search, 2 during the second
    call        \* the last call made from outside and what it returned

vars == <<board, pc, idx, stack, emitted, firstrun, run, call>>

\* ------------------------------------------------------------ accessors
\* f extended by one cell, f being a C array filled up to index n - 1.
Extend(f, n, v) == [i \in 0 .. n |-> IF i < n THEN f[i] ELSE v]

\* *island for an hisland pointer.
Island(b, i) == IF i = OUT THEN b.out_island_st ELSE b.islands[i]

\* *connection for an hconnection pointer.
Conn(b, c) == IF c = OUT THEN b.out_connection_st ELSE b.connections[c]

\* The board after *island = v.
SetIsland(b, i, v) ==
    IF i = OUT THEN [b EXCEPT !.out_island_st = v]
    ELSE [b EXCEPT !.islands[i] = v]

\* The board after *connection = v.
SetConn(b, c, v) ==
    IF c = OUT THEN [b EXCEPT !.out_connection_st = v]
    ELSE [b EXCEPT !.connections[c] = v]

\* ------------------------------------------------------------ init_board
\* init_out_island leaving a pending bridge on the outside island.
init_out_island_pending ==
    [pendbridges |-> 1, expectbridges |-> 0, row |-> -1, col |-> -1,
     islands |-> [d \in Dirs |-> OUT], connections |-> [d \in Dirs |-> OUT]]

init_out_island ==
    [pendbridges |-> 0, expectbridges |-> 0, row |-> -1, col |-> -1,
     islands |-> [d \in Dirs |-> OUT], connections |-> [d \in Dirs |-> OUT]]

init_out_connection ==
    [bridges |-> 0, firstcross |-> <<>>,
     ppendbridges1 |-> OUT, ppendbridges2 |-> OUT]

\* The values an int that main never initialized may hold.
Indeterminate == {0, 5}

\* init_board leaves visitedlimit as main's uninitialized hboard has it.
\* max_bridges, which add_island only adds to and nothing reads, is left out.
init_board(limit) ==
    [islands |-> <<>>, max_islands |-> MAX_ISLANDS, num_islands |-> 0,
     connections |-> <<>>, max_connections |-> MAX_CONNECTIONS,
     num_connections |-> 0,
     max_crosselems |-> MAX_CROSSELEMS, num_crosselems |-> 0,
     rows |-> 0, cols |-> 0,
     max_visited_size |-> MAX_VISITED_SIZE, visitedlimit |-> limit,
     visitedmatrix |-> {},
     out_island_st |-> init_out_island,
     out_connection_st |-> init_out_connection]

\* ------------------------------------------------------------ graph builder
RECURSIVE find_up(_, _, _)
find_up(b, index, col) ==
    IF index - 1 > -1
    THEN IF b.islands[index - 1].col = col THEN index - 1
         ELSE find_up(b, index - 1, col)
    ELSE OUT

\* find_from_island taking the previous island as the left one whatever
\* its row.
find_from_island_anyrow(b, index, dir) ==
    IF dir = LEFT
    THEN IF index - 1 > -1 THEN index - 1 ELSE OUT
    ELSE find_up(b, index, b.islands[index].col)

find_from_island(b, index, dir) ==
    IF dir = LEFT
    THEN IF index - 1 > -1
         THEN IF b.islands[index - 1].row < b.islands[index].row THEN OUT
              ELSE index - 1
         ELSE OUT
    ELSE find_up(b, index, b.islands[index].col)

\* The connection next_connection hands out, zeroed and bound to the pending
\* counters of islands p1 and p2.
new_connection(p1, p2) ==
    [bridges |-> 0, firstcross |-> <<>>,
     ppendbridges1 |-> p1, ppendbridges2 |-> p2]

\* insert_crosselem storing the address of the connection's own bridges.
insert_crosselem_self(b, connection, pbridges) ==
    [b EXCEPT !.connections[connection].firstcross = <<connection>> \o @]

insert_crosselem(b, connection, pbridges) ==
    [b EXCEPT !.connections[connection].firstcross = <<pbridges>> \o @]

RECURSIVE fill_crosses_from(_, _, _, _)
\* The loop of fill_crosses, from island on.
fill_crosses_from(b, up, down, island) ==
    IF island = down THEN [ret |-> TRUE, board |-> b]
    ELSE
      LET col == b.islands[up].col
          conn_vert == b.islands[up].connections[DOWN]
          isl == b.islands[island]
          right == isl.islands[RIGHT]
      IN IF /\ isl.row > b.islands[up].row
            /\ isl.row < b.islands[down].row
            /\ isl.col < col
            /\ right # OUT
            /\ b.islands[right].col > col
         THEN LET conn_horz == isl.connections[RIGHT] IN
              IF b.num_crosselems >= b.max_crosselems
              THEN [ret |-> FALSE, board |-> b]
              ELSE LET b1 == insert_crosselem(
                                [b EXCEPT !.num_crosselems = @ + 1],
                                conn_horz, conn_vert)
                   IN IF b1.num_crosselems >= b1.max_crosselems
                      THEN [ret |-> FALSE, board |-> b1]
                      ELSE fill_crosses_from(
                             insert_crosselem(
                                [b1 EXCEPT !.num_crosselems = @ + 1],
                                conn_vert, conn_horz),
                             up, down, island + 1)
         ELSE fill_crosses_from(b, up, down, island + 1)

\* fill_crosses whose loop starts at down and so never runs.
fill_crosses_none(b, up, down) == fill_crosses_from(b, up, down, down)

fill_crosses(b, up, down) == fill_crosses_from(b, up, down, up + 1)

\* The second half of fill_connections: the connection to the island above.
fill_connections_up(b, index, up) ==
    IF up # OUT
    THEN IF b.num_connections >= b.max_connections
         THEN [ret |-> FALSE, board |-> b]
         ELSE LET c == b.num_connections
                  b1 == [b EXCEPT
                           !.num_connections = @ + 1,
                           !.connections = Extend(@, c, new_connection(up, index)),
                           !.islands[index].connections[UP] = c,
                           !.islands[up].connections[DOWN] = c,
                           !.islands[up].islands[DOWN] = index]
              IN fill_crosses(b1, up, index)
    ELSE [ret |-> TRUE, board |-> b]

fill_connections(b) ==
    LET index == b.num_islands - 1
        left == find_from_island(b, index, LEFT)
        up == find_from_island(b, index, UP)
        b0 == [b EXCEPT
                 !.islands[index].islands =
                     [d \in Dirs |-> IF d = LEFT THEN left
                                     ELSE IF d = UP THEN up ELSE OUT],
                 !.islands[index].connections = [d \in Dirs |-> OUT]]
    IN IF left # OUT
       THEN IF b0.num_connections >= b0.max_connections
            THEN [ret |-> FALSE, board |-> b0]
            ELSE LET c == b0.num_connections
                     b1 == [b0 EXCEPT
                              !.num_connections = @ + 1,
                              !.connections =
                                  Extend(@, c, new_connection(left, index)),
                              !.islands[index].connections[LEFT] = c,
                              !.islands[left].connections[RIGHT] = c,
                              !.islands[left].islands[RIGHT] = index]
                 IN fill_connections_up(b1, index, up)
       ELSE fill_connections_up(b0, index, up)

\* The island next_island hands out as add_island fills it; its islands and
\* connections are set by fill_connections before anything reads them.
new_island(row, col, expectbridges) ==
    [pendbridges |-> expectbridges, expectbridges |-> expectbridges,
     row |-> row, col |-> col,
     islands |-> [d \in Dirs |-> OUT], connections |-> [d \in Dirs |-> OUT]]

\* add_island comparing the column with < where the code has <=.
add_island_unordered(b, row, col, expectbridges) ==
    IF row < 0 \/ col < 0 THEN [ret |-> FALSE, board |-> b]
    ELSE IF row >= CHAR_MAX THEN [ret |-> FALSE, board |-> b]
    ELSE IF col >= CHAR_MAX THEN [ret |-> FALSE, board |-> b]
    ELSE IF /\ b.num_islands > 0
            /\ LET prev == b.islands[b.num_islands - 1]
               IN row < prev.row \/ (row = prev.row /\ col < prev.col)
         THEN [ret |-> FALSE, board |-> b]
    ELSE IF expectbridges < 1 \/ expectbridges > MAX_EXPECTED_BRIDGES
         THEN [ret |-> FALSE, board |-> b]
    ELSE IF b.num_islands >= b.max_islands THEN [ret |-> FALSE, board |-> b]
    ELSE fill_connections(
           [b EXCEPT
              !.islands = Extend(@, b.num_islands,
                                 new_island(row, col, expectbridges)),
              !.num_islands = @ + 1,
              !.rows = IF @ <= row THEN row + 1 ELSE @,
              !.cols = IF @ <= col THEN col + 1 ELSE @])

add_island(b, row, col, expectbridges) ==
    IF row < 0 \/ col < 0 THEN [ret |-> FALSE, board |-> b]
    ELSE IF row >= CHAR_MAX THEN [ret |-> FALSE, board |-> b]
    ELSE IF col >= CHAR_MAX THEN [ret |-> FALSE, board |-> b]
    ELSE IF /\ b.num_islands > 0
            /\ LET prev == b.islands[b.num_islands - 1]
               IN row < prev.row \/ (row = prev.row /\ col <= prev.col)
         THEN [ret |-> FALSE, board |-> b]
    ELSE IF expectbridges < 1 \/ expectbridges > MAX_EXPECTED_BRIDGES
         THEN [ret |-> FALSE, board |-> b]
    ELSE IF b.num_islands >= b.max_islands THEN [ret |-> FALSE, board |-> b]
    ELSE fill_connections(
           [b EXCEPT
              !.islands = Extend(@, b.num_islands,
                                 new_island(row, col, expectbridges)),
              !.num_islands = @ + 1,
              !.rows = IF @ <= row THEN row + 1 ELSE @,
              !.cols = IF @ <= col THEN col + 1 ELSE @])

\* ------------------------------------------------------------ bridges
\* *(connection->ppendbridgesN) changed by d.
AddPend(b, i, d) ==
    SetIsland(b, i, [Island(b, i) EXCEPT !.pendbridges = @ + d])

\* Whether some connection crossing conn has bridges: the loop of add_bridge.
crossed(b, conn) ==
    \E k \in DOMAIN conn.firstcross : Conn(b, conn.firstcross[k]).bridges # 0

\* add_bridge without the loop over the crossing connections.
add_bridge_uncrossed(b, connection) ==
    LET conn == Conn(b, connection) IN
    IF conn.bridges >= MAX_CONNECTION_BRIDGES THEN [ret |-> FALSE, board |-> b]
    ELSE IF /\ Island(b, conn.ppendbridges1).pendbridges # 0
            /\ Island(b, conn.ppendbridges2).pendbridges # 0
         THEN [ret |-> TRUE,
               board |-> AddPend(
                           AddPend(
                             SetConn(b, connection,
                                     [conn EXCEPT !.bridges = @ + 1]),
                             conn.ppendbridges1, -1),
                           conn.ppendbridges2, -1)]
         ELSE [ret |-> FALSE, board |-> b]

\* add_bridge counting the bridge before it tests the pending counters.
add_bridge_early(b, connection) ==
    LET conn == Conn(b, connection)
        b1 == SetConn(b, connection, [conn EXCEPT !.bridges = @ + 1])
    IN
    IF conn.bridges >= MAX_CONNECTION_BRIDGES THEN [ret |-> FALSE, board |-> b]
    ELSE IF /\ Island(b, conn.ppendbridges1).pendbridges # 0
            /\ Island(b, conn.ppendbridges2).pendbridges # 0
         THEN IF crossed(b, conn) THEN [ret |-> FALSE, board |-> b1]
              ELSE [ret |-> TRUE,
                    board |-> AddPend(AddPend(b1, conn.ppendbridges1, -1),
                                      conn.ppendbridges2, -1)]
         ELSE [ret |-> FALSE, board |-> b1]

add_bridge(b, connection) ==
    LET conn == Conn(b, connection) IN
    IF conn.bridges >= MAX_CONNECTION_BRIDGES THEN [ret |-> FALSE, board |-> b]
    ELSE IF /\ Island(b, conn.ppendbridges1).pendbridges # 0
            /\ Island(b, conn.ppendbridges2).pendbridges # 0
         THEN IF crossed(b, conn) THEN [ret |-> FALSE, board |-> b]
              ELSE [ret |-> TRUE,
                    board |-> AddPend(
                                AddPend(
                                  SetConn(b, connection,
                                          [conn EXCEPT !.bridges = @ + 1]),
                                  conn.ppendbridges1, -1),
                                conn.ppendbridges2, -1)]
         ELSE [ret |-> FALSE, board |-> b]

\* del_bridge giving the bridge back to the first island only.
del_bridge_half(b, connection) ==
    LET conn == Conn(b, connection) IN
    IF conn.bridges # 0
    THEN [ret |-> TRUE,
          board |-> AddPend(
                      SetConn(b, connection, [conn EXCEPT !.bridges = @ - 1]),
                      conn.ppendbridges1, 1)]
    ELSE [ret |-> FALSE, board |-> b]

del_bridge(b, connection) ==
    LET conn == Conn(b, connection) IN
    IF conn.bridges # 0
    THEN [ret |-> TRUE,
          board |-> AddPend(
                      AddPend(
                        SetConn(b, connection, [conn EXCEPT !.bridges = @ - 1]),
                        conn.ppendbridges1, 1),
                      conn.ppendbridges2, 1)]
    ELSE [ret |-> FALSE, board |-> b]

RECURSIVE del_bridges(_, _)
\* while (del_bridge(connection));
del_bridges(b, connection) ==
    LET r == del_bridge(b, connection)
    IN IF r.ret THEN del_bridges(r.board, connection) ELSE r.board

RECURSIVE fill_loop(_, _, _)
\* The first loop of fill_bridges, with dir as it stands.
fill_loop(b, island, dir) ==
    IF b.islands[island].pendbridges # 0
    THEN LET r == add_bridge(b, b.islands[island].connections[dir])
         IN IF ~r.ret
            THEN IF dir + 1 = DIRECTIONS THEN r.board
                 ELSE fill_loop(r.board, island, dir + 1)
            ELSE fill_loop(r.board, island, dir)
    ELSE b

\* fill_bridges giving up without the loop that empties the down connection.
fill_bridges_right(b, island) ==
    LET b1 == fill_loop(b, island, RIGHT) IN
    IF b1.islands[island].pendbridges # 0
    THEN [ret |-> FALSE,
          board |-> del_bridges(b1, b1.islands[island].connections[RIGHT])]
    ELSE [ret |-> TRUE, board |-> b1]

\* fill_bridges giving up without taking back the bridges it added.
fill_bridges_kept(b, island) ==
    LET b1 == fill_loop(b, island, RIGHT) IN
    IF b1.islands[island].pendbridges # 0
    THEN [ret |-> FALSE, board |-> b1]
    ELSE [ret |-> TRUE, board |-> b1]

\* fill_bridges without its test of the bridges still pending.
fill_bridges_unchecked(b, island) ==
    [ret |-> TRUE, board |-> fill_loop(b, island, RIGHT)]

fill_bridges(b, island) ==
    LET b1 == fill_loop(b, island, RIGHT) IN
    IF b1.islands[island].pendbridges # 0
    THEN [ret |-> FALSE,
          board |-> del_bridges(
                      del_bridges(b1, b1.islands[island].connections[RIGHT]),
                      b1.islands[island].connections[DOWN])]
    ELSE [ret |-> TRUE, board |-> b1]

\* reorder_bridges that never tries the down connection.
reorder_bridges_none(b, island) ==
    [ret |-> FALSE,
     board |-> del_bridges(
                 del_bridges(b, b.islands[island].connections[RIGHT]),
                 b.islands[island].connections[DOWN])]

\* reorder_bridges adding the bridge back to the right connection.
reorder_bridges_again(b, island) ==
    LET right == b.islands[island].connections[RIGHT]
        down == b.islands[island].connections[DOWN]
        d == del_bridge(b, right)
    IN IF d.ret
       THEN LET a == add_bridge(d.board, right)
            IN IF a.ret THEN [ret |-> TRUE, board |-> a.board]
               ELSE [ret |-> FALSE,
                     board |-> del_bridges(del_bridges(a.board, right), down)]
       ELSE [ret |-> FALSE, board |-> del_bridges(d.board, down)]

\* reorder_bridges without its last loop, which empties the down connection.
reorder_bridges_leave(b, island) ==
    LET right == b.islands[island].connections[RIGHT]
        down == b.islands[island].connections[DOWN]
        d == del_bridge(b, right)
    IN IF d.ret
       THEN LET a == add_bridge(d.board, down)
            IN IF a.ret THEN [ret |-> TRUE, board |-> a.board]
               ELSE [ret |-> FALSE, board |-> del_bridges(a.board, right)]
       ELSE [ret |-> FALSE, board |-> d.board]

\* reorder_bridges without the loop that empties the right connection when
\* the down connection takes no bridge.
reorder_bridges_halfway(b, island) ==
    LET right == b.islands[island].connections[RIGHT]
        down == b.islands[island].connections[DOWN]
        d == del_bridge(b, right)
    IN IF d.ret
       THEN LET a == add_bridge(d.board, down)
            IN IF a.ret THEN [ret |-> TRUE, board |-> a.board]
               ELSE [ret |-> FALSE, board |-> del_bridges(a.board, down)]
       ELSE [ret |-> FALSE, board |-> del_bridges(d.board, down)]

\* reorder_bridges taking the bridge off the left connection.
reorder_bridges_left(b, island) ==
    LET right == b.islands[island].connections[RIGHT]
        down == b.islands[island].connections[DOWN]
        d == del_bridge(b, b.islands[island].connections[LEFT])
    IN IF d.ret
       THEN LET a == add_bridge(d.board, down)
            IN IF a.ret THEN [ret |-> TRUE, board |-> a.board]
               ELSE [ret |-> FALSE,
                     board |-> del_bridges(del_bridges(a.board, right), down)]
       ELSE [ret |-> FALSE, board |-> del_bridges(d.board, down)]

\* reorder_bridges reporting another ordering when it has found none.
reorder_bridges_true(b, island) ==
    LET right == b.islands[island].connections[RIGHT]
        down == b.islands[island].connections[DOWN]
        d == del_bridge(b, right)
    IN IF d.ret
       THEN LET a == add_bridge(d.board, down)
            IN IF a.ret THEN [ret |-> TRUE, board |-> a.board]
               ELSE [ret |-> TRUE,
                     board |-> del_bridges(del_bridges(a.board, right), down)]
       ELSE [ret |-> TRUE, board |-> del_bridges(d.board, down)]

reorder_bridges(b, island) ==
    LET right == b.islands[island].connections[RIGHT]
        down == b.islands[island].connections[DOWN]
        d == del_bridge(b, right)
    IN IF d.ret
       THEN LET a == add_bridge(d.board, down)
            IN IF a.ret THEN [ret |-> TRUE, board |-> a.board]
               ELSE [ret |-> FALSE,
                     board |-> del_bridges(del_bridges(a.board, right), down)]
       ELSE [ret |-> FALSE, board |-> del_bridges(d.board, down)]

\* ------------------------------------------------------------ connectivity
RECURSIVE visit_islands(_, _)
RECURSIVE visit_directions(_, _, _, _)

RECURSIVE visit_directions_forward(_, _, _, _)
\* The loop of visit_islands following the right and down connections only.
visit_directions_forward(b, island, i, total) ==
    IF i = DIRECTIONS THEN [total |-> total, board |-> b]
    ELSE IF i >= RIGHT /\ Conn(b, b.islands[island].connections[i]).bridges # 0
         THEN LET r == visit_islands(b, b.islands[island].islands[i])
              IN visit_directions_forward(r.board, island, i + 1,
                                          total + r.total)
         ELSE visit_directions_forward(b, island, i + 1, total)

\* The for loop of visit_islands from direction i on, total counted so far.
visit_directions(b, island, i, total) ==
    IF i = DIRECTIONS THEN [total |-> total, board |-> b]
    ELSE IF Conn(b, b.islands[island].connections[i]).bridges # 0
         THEN LET r == visit_islands(b, b.islands[island].islands[i])
              IN visit_directions(r.board, island, i + 1, total + r.total)
         ELSE visit_directions(b, island, i + 1, total)

\* visitedmatrix is the set of the positions that hold true.
visit_islands(b, island) ==
    IF island # OUT
    THEN LET pos == b.islands[island].row * b.cols + b.islands[island].col IN
         IF pos \notin b.visitedmatrix
         THEN visit_directions(
                [b EXCEPT !.visitedmatrix = @ \cup {pos},
                          !.visitedlimit = IF pos + 1 > @ THEN pos + 1 ELSE @],
                island, 0, 1)
         ELSE [total |-> 0, board |-> b]
    ELSE [total |-> 0, board |-> b]

\* check_connected_solution that leaves the visited matrix as the visit made it.
check_connected_solution_dirty(b) ==
    LET r == visit_islands([b EXCEPT !.visitedlimit = 0], 0)
    IN [ret |-> r.total = b.num_islands, board |-> r.board]

\* check_connected_solution built without CHECK_CONNECTED_SOLUTION.
check_connected_solution_off(b) == [ret |-> TRUE, board |-> b]

\* check_connected_solution clearing one cell less than visitedlimit says.
check_connected_solution_short(b) ==
    LET r == visit_islands([b EXCEPT !.visitedlimit = 0], 0)
        b1 == r.board
        b2 == IF b1.visitedlimit # 0
              THEN [b1 EXCEPT
                      !.visitedmatrix = {p \in @ : p >= b1.visitedlimit - 1},
                      !.visitedlimit = 0]
              ELSE b1
    IN [ret |-> r.total = b.num_islands, board |-> b2]

check_connected_solution(b) ==
    LET r == visit_islands([b EXCEPT !.visitedlimit = 0], 0)
        b1 == r.board
        b2 == IF b1.visitedlimit # 0
              THEN [b1 EXCEPT
                      !.visitedmatrix = {p \in @ : p >= b1.visitedlimit},
                      !.visitedlimit = 0]
              ELSE b1
    IN [ret |-> r.total = b.num_islands, board |-> b2]

valid_visited_matrix_size(b) == ~(b.max_visited_size < b.rows * b.cols)

\* What print_board shows of a solution: the bridges of every connection.
print_board(b) ==
    [c \in 0 .. (b.num_connections - 1) |-> b.connections[c].bridges]

\* ------------------------------------------------------------ actions

NoCall == [op |-> "none", ret |-> TRUE]

\* What an open call of the search remembers of the board at its entry.
Snapshot(b) ==
    [bridges |-> print_board(b),
     pend |-> [i \in 0 .. (b.num_islands - 1) |-> b.islands[i].pendbridges]]

Init ==
    /\ board \in {init_board(limit) : limit \in Indeterminate}
    /\ pc = "build"
    /\ idx = 0
    /\ stack = <<>>
    /\ emitted = <<>>
    /\ firstrun = <<>>
    /\ run = 1
    /\ call = NoCall

\* read_islands calls add_island(board, row, col, expectbridges); when the
\* call fails read_islands returns false and main exits.  No island is
\* offered once the board holds limit islands.
ReadIsland(limit, row, col, expectbridges) ==
    /\ pc = "build"
    /\ board.num_islands < limit
    /\ LET r == add_island(board, row, col, expectbridges)
       IN /\ board' = r.board
          /\ call' = [op |-> "add_island", ret |-> r.ret]
          /\ pc' = IF r.ret THEN "build" ELSE "exit"
    /\ UNCHANGED <<idx, stack, emitted, firstrun, run>>

AddIsland(row, col, expectbridges) ==
    ReadIsland(MaxIslands, row, col, expectbridges)

\* main: the input is read, the board holds islands and the visited matrix is
\* large enough: find_solutions_from_island(&board, 0).
StartSearch ==
    /\ pc = "build"
    /\ board.num_islands # 0
    /\ valid_visited_matrix_size(board)
    /\ pc' = "call"
    /\ idx' = 0
    /\ call' = NoCall
    /\ UNCHANGED <<board, stack, emitted, firstrun, run>>

\* find_solutions_from_island(board, idx) returns to its caller: the call
\* for idx - 1, which goes on with its while loop, or main.
ReturnTo(st) ==
    /\ pc' = IF idx = 0 THEN "done" ELSE "resume"
    /\ idx' = IF idx = 0 THEN 0 ELSE idx - 1
    /\ stack' = st

\* find_solutions_from_island entered with idx >= num_islands.
Check ==
    /\ pc = "call"
    /\ idx >= board.num_islands
    /\ LET r == check_connected_solution(board)
       IN /\ board' = r.board
          /\ emitted' = IF r.ret THEN Append(emitted, print_board(r.board))
                        ELSE emitted
    /\ ReturnTo(stack)
    /\ UNCHANGED <<firstrun, run, call>>

\* find_solutions_from_island entered with idx < num_islands: fill_bridges,
\* then the first recursive call or the return.
Fill ==
    /\ pc = "call"
    /\ idx < board.num_islands
    /\ LET r == fill_bridges(board, idx)
       IN /\ board' = r.board
          /\ IF r.ret
             THEN /\ pc' = "call"
                  /\ idx' = idx + 1
                  /\ stack' = Append(stack, Snapshot(board))
             ELSE ReturnTo(stack)
    /\ UNCHANGED <<emitted, firstrun, run, call>>

\* The while loop of the call for idx, a recursive call having returned:
\* reorder_bridges, then the next recursive call or the return.
Reorder ==
    /\ pc = "resume"
    /\ LET r == reorder_bridges(board, idx)
       IN /\ board' = r.board
          /\ IF r.ret
             THEN /\ pc' = "call"
                  /\ idx' = idx + 1
                  /\ stack' = stack
             ELSE ReturnTo(SubSeq(stack, 1, Len(stack) - 1))
    /\ UNCHANGED <<emitted, firstrun, run, call>>

\* The search is run once more on the board as the first run left it.
Rerun ==
    /\ pc = "done"
    /\ run = 1
    /\ run' = 2
    /\ firstrun' = emitted
    /\ emitted' = <<>>
    /\ pc' = "call"
    /\ idx' = 0
    /\ UNCHANGED <<board, stack, call>>

Next ==
    \/ \E row \in GridRows, col \in GridCols, e \in GridExpects :
          AddIsland(row, col, e)
    \/ StartSearch
    \/ Check
    \/ Fill
    \/ Reorder

Spec == Init /\ [][Next]_vars

\* The same program with the search run a second time.
NextTwice ==
    \/ \E row \in GridRows, col \in GridCols, e \in GridExpects :
          AddIsland(row, col, e)
    \/ StartSearch
    \/ Check
    \/ Fill
    \/ Reorder
    \/ Rerun

SpecTwice == Init /\ [][NextTwice]_vars

\* find_solutions_from_island(board, 0) has been called and has not returned.
Searching == pc \in {"call", "resume"}

\* One step of the running search.
SearchStep == Check \/ Fill \/ Reorder

\* The search is straight-line code with no suspension point: while a call
\* of it is open its next step is taken.  This is WF_vars(SearchStep), with
\* ENABLED <<SearchStep>>_vars written as the state predicate Searching: the
\* guards of Check, Fill and Reorder cover pc = "call" and pc = "resume",
\* they are false elsewhere, and each of them changes pc or idx.
SpecLive ==
    /\ Init /\ [][Next]_vars
    /\ ([]<>(~Searching) \/ []<><<SearchStep>>_vars)

\* The construction alone, on a larger grid, of boards of up to
\* BuildMaxIslands islands that all expect the same number of bridges: what
\* an island expects plays no part in the connections made.
AddIslandBuild(row, col, expectbridges) ==
    ReadIsland(BuildMaxIslands, row, col, expectbridges)

NextBuild ==
    \E row \in BuildRows, col \in BuildCols, e \in BuildExpects :
        AddIslandBuild(row, col, e)

SpecBuild == Init /\ [][NextBuild]_vars

\* ------------------------------------------------------------ few islands
\* The same program on boards of at most WideMaxIslands islands, offered
\* every expected count of 1..MAX_EXPECTED_BRIDGES and the two just outside,
\* and the rows and columns just outside 0..CHAR_MAX-1 besides the grid's.
RowInputs == {-1} \cup GridRows \cup {CHAR_MAX}
ColInputs == {-1} \cup GridCols \cup {CHAR_MAX}
WideExpectInputs == 0 .. (MAX_EXPECTED_BRIDGES + 1)

AddIslandWide(row, col, expectbridges) ==
    ReadIsland(WideMaxIslands, row, col, expectbridges)

NextWide ==
    \/ \E row \in RowInputs, col \in ColInputs, e \in WideExpectInputs :
          AddIslandWide(row, col, e)
    \/ StartSearch
    \/ Check
    \/ Fill
    \/ Reorder

SpecWide == Init /\ [][NextWide]_vars

\* ------------------------------------------------------------ the bridge calls
\* Every connection pointer of the board, the outside connection included.
Connections(b) == {OUT} \cup (0 .. (b.num_connections - 1))

\* add_bridge(connection) called on the built board, outside any search.
AddBridge(connection) ==
    /\ pc \in {"build", "api"}
    /\ board' = add_bridge(board, connection).board
    /\ pc' = "api"
    /\ UNCHANGED <<idx, stack, emitted, firstrun, run, call>>

\* del_bridge(connection) called on the built board, outside any search.
DelBridge(connection) ==
    /\ pc \in {"build", "api"}
    /\ board' = del_bridge(board, connection).board
    /\ pc' = "api"
    /\ UNCHANGED <<idx, stack, emitted, firstrun, run, call>>

NextApi ==
    \/ \E row \in GridRows, col \in GridCols, e \in GridExpects :
          AddIsland(row, col, e)
    \/ \E connection \in Connections(board) : AddBridge(connection)
    \/ \E connection \in Connections(board) : DelBridge(connection)

\* The bridge calls read and write no visited matrix: its limit is taken as 0.
InitApi == Init /\ board.visitedlimit = 0

SpecApi == InitApi /\ [][NextApi]_vars

\* ------------------------------------------------------------ the puzzle
\* The rules of the puzzle, stated on the islands' positions and on the two
\* islands each connection joins, for an assignment f of a bridge count to
\* every connection of the board.
IslandsOf(b) == 0 .. (b.num_islands - 1)
RealConnections(b) == 0 .. (b.num_connections - 1)
Ends(b, c) == {b.connections[c].ppendbridges1, b.connections[c].ppendbridges2}
Assignments(b) == [RealConnections(b) -> 0 .. MAX_CONNECTION_BRIDGES]

RECURSIVE SumBridges(_, _)
SumBridges(S, f) ==
    IF S = {} THEN 0
    ELSE LET c == CHOOSE x \in S : TRUE IN f[c] + SumBridges(S \ {c}, f)

Between(x, a, b) == (a < x /\ x < b) \/ (b < x /\ x < a)

\* Connection h runs along a row, v along a column, and the two lines meet
\* strictly inside both.
CrossesAt(b, h, v) ==
    LET h1 == b.islands[b.connections[h].ppendbridges1]
        h2 == b.islands[b.connections[h].ppendbridges2]
        v1 == b.islands[b.connections[v].ppendbridges1]
        v2 == b.islands[b.connections[v].ppendbridges2]
    IN /\ h1.row = h2.row
       /\ v1.col = v2.col
       /\ Between(h1.row, v1.row, v2.row)
       /\ Between(v1.col, h1.col, h2.col)

Crossing(b, c1, c2) == CrossesAt(b, c1, c2) \/ CrossesAt(b, c2, c1)

SumsMet(b, f) ==
    \A i \in IslandsOf(b) :
        SumBridges({c \in RealConnections(b) : i \in Ends(b, c)}, f)
            = b.islands[i].expectbridges

NoneCrossed(b, f) ==
    \A c1, c2 \in RealConnections(b) :
        Crossing(b, c1, c2) => ~(f[c1] > 0 /\ f[c2] > 0)

RECURSIVE ReachedFrom(_, _, _)
\* The islands joined to those of S by connections that carry bridges in f.
ReachedFrom(b, f, S) ==
    LET T == S \cup {i \in IslandsOf(b) :
                       \E c \in RealConnections(b) :
                          /\ f[c] > 0
                          /\ i \in Ends(b, c)
                          /\ Ends(b, c) \cap S # {}}
    IN IF T = S THEN S ELSE ReachedFrom(b, f, T)

OneComponent(b, f) == ReachedFrom(b, f, {0}) = IslandsOf(b)

Solutions(b) ==
    {f \in Assignments(b) :
        SumsMet(b, f) /\ NoneCrossed(b, f) /\ OneComponent(b, f)}

Emitted == {emitted[k] : k \in 1 .. Len(emitted)}

\* ------------------------------------------------------------ claims
\* C1: when find_solutions_from_island(board, 0) has returned, the set of the
\* assignments it emitted is the set of all assignments of 0, 1 or 2 bridges
\* to each connection in which every island's counts sum to its expected
\* value, no two crossing connections both carry bridges and all islands are
\* in one component.
C1_Exhaustive == pc = "done" => Emitted = Solutions(board)

C1_Witness ==
    /\ pc = "done"
    /\ run = 1
    /\ board.num_islands = MaxIslands
    /\ Cardinality(Emitted) >= 2

\* The sum of the bridges of the four connections of island i.
IncidentBridges(b, i) ==
    LET conn(d) == Conn(b, b.islands[i].connections[d]).bridges
    IN conn(UP) + conn(LEFT) + conn(RIGHT) + conn(DOWN)

\* find_solutions_from_island is entered with idx >= num_islands: it is about
\* to call check_connected_solution.
AtCheck == pc = "call" /\ idx >= board.num_islands

\* C2: whenever the search reaches idx = num_islands and calls
\* check_connected_solution, every island has pendbridges = 0 and the bridges
\* of its four connections sum to its expectbridges.
C2_Completed ==
    AtCheck =>
        \A i \in IslandsOf(board) :
            /\ board.islands[i].pendbridges = 0
            /\ IncidentBridges(board, i) = board.islands[i].expectbridges

C2_Witness ==
    /\ AtCheck
    /\ idx = board.num_islands
    /\ board.num_islands = MaxIslands
    /\ \E c \in RealConnections(board) : board.connections[c].bridges = 0

\* C3: after any sequence of add_bridge / del_bridge calls on a freshly built
\* board, every connection (the outside one included) has 0, 1 or 2 bridges
\* and no two crossing connections both have bridges, whether the crossing
\* is read from the positions or from the recorded crossing lists.
C3_BridgeInvariant ==
    /\ \A c \in Connections(board) :
          Conn(board, c).bridges \in 0 .. MAX_CONNECTION_BRIDGES
    /\ \A c1, c2 \in RealConnections(board) :
          Crossing(board, c1, c2) =>
              ~(board.connections[c1].bridges > 0
                  /\ board.connections[c2].bridges > 0)
    /\ \A c \in RealConnections(board) :
          board.connections[c].bridges > 0 =>
              \A k \in DOMAIN board.connections[c].firstcross :
                  Conn(board, board.connections[c].firstcross[k]).bridges = 0

\* Bridge calls have run, a connection is full, it crosses another one, and
\* both islands of that other one still lack bridges.
C3_Witness ==
    /\ pc = "api"
    /\ \E c1, c2 \in RealConnections(board) :
          /\ Crossing(board, c1, c2)
          /\ board.connections[c1].bridges = MAX_CONNECTION_BRIDGES
          /\ \A i \in Ends(board, c1) \cup Ends(board, c2) :
                board.islands[i].pendbridges > 0

\* The islands form one component through the connections with bridges.
Connected(b) == OneComponent(b, print_board(b))

\* C4: check_connected_solution accepts the assignment on the board, which is
\* then emitted, if and only if every island is reachable from islands[0]
\* through connections with bridges; so every emitted assignment joins all
\* islands into one component.
C4_Connectivity ==
    /\ [][AtCheck =>
            \/ Connected(board) /\ emitted' = Append(emitted, print_board(board))
            \/ ~Connected(board) /\ emitted' = emitted]_vars
    /\ [](\A k \in 1 .. Len(emitted) : OneComponent(board, emitted[k]))

\* A solution was emitted and the search is about to pass to the check an
\* assignment that is not connected.
C4_Witness ==
    /\ pc = "call"
    /\ idx = board.num_islands
    /\ board.num_islands = MaxIslands
    /\ ~Connected(board)
    /\ Len(emitted) > 0

\* C5: within one run of the search no assignment is emitted twice.
C5_NoDuplicates ==
    \A j, k \in 1 .. Len(emitted) : j # k => emitted[j] # emitted[k]

C5_Witness == pc = "done" /\ Len(emitted) >= 2 /\ emitted[1] # emitted[2]

\* C6: a second run of find_solutions_from_island(board, 0) on the board the
\* first run left emits the same solutions in the same order.
C6_SameTwice == (pc = "done" /\ run = 2) => emitted = firstrun

C6_Witness ==
    /\ pc = "done"
    /\ run = 2
    /\ Len(firstrun) >= 2
    /\ board.num_islands = MaxIslands

\* Four islands at the corners of a rectangle, each expecting 2 bridges.  The
\* connections are numbered as they are made: 0 the top edge, 1 the left
\* edge, 2 the bottom edge, 3 the right edge.
Rectangle(b) ==
    /\ b.num_islands = 4
    /\ b.islands[0].row = b.islands[1].row
    /\ b.islands[2].row = b.islands[3].row
    /\ b.islands[0].col = b.islands[2].col
    /\ b.islands[1].col = b.islands[3].col
    /\ \A i \in IslandsOf(b) : b.islands[i].expectbridges = 2

Ring == [c \in 0 .. 3 |-> 1]
TopBottom == [c \in 0 .. 3 |-> IF c \in {0, 2} THEN 2 ELSE 0]
LeftRight == [c \in 0 .. 3 |-> IF c \in {1, 3} THEN 2 ELSE 0]

\* C7: on such a board the search emits exactly one solution, with 1 bridge
\* on each of the four edges; the only other assignments that meet the sums
\* are the two with 2 bridges on a pair of opposite edges and 0 on the other
\* pair, they are not connected, and they are never emitted.
C7_Rectangle ==
    Rectangle(board) =>
        /\ pc = "done" => emitted = <<Ring>>
        /\ {f \in Assignments(board) : SumsMet(board, f)}
              = {Ring, TopBottom, LeftRight}
        /\ \A f \in {TopBottom, LeftRight} :
              ~OneComponent(board, f) /\ f \notin Emitted
        /\ (AtCheck /\ print_board(board) # Ring) => ~Connected(board)

C7_Witness ==
    /\ Rectangle(board)
    /\ pc = "done"
    /\ run = 1
    /\ emitted = <<Ring>>

\* Four islands whose only two connections cross each other: a plus shape.
PlusShape(b) ==
    /\ b.num_islands = 4
    /\ b.num_connections = 2
    /\ Crossing(b, 0, 1)

\* C8: on a plus-shaped board the search emits nothing; no assignment even
\* reaches check_connected_solution.
C8_PlusShape ==
    PlusShape(board) => emitted = <<>> /\ ~AtCheck

\* The search is over on a plus-shaped board on which either connection
\* alone could carry what its two islands expect.
C8_Witness ==
    /\ PlusShape(board)
    /\ pc = "done"
    /\ \A c \in RealConnections(board) :
          \E n \in 1 .. MAX_CONNECTION_BRIDGES :
             \A i \in Ends(board, c) : board.islands[i].expectbridges = n

\* C9: on a board of a single island, whatever it expects, the search emits
\* nothing and passes nothing to check_connected_solution: both forward
\* connections of the island are the outside connection, which keeps 0
\* bridges and on which add_bridge fails.
C9_SingleIsland ==
    /\ board.out_connection_st.bridges = 0
    /\ ~add_bridge(board, OUT).ret
    /\ board.num_islands = 1 =>
          /\ board.islands[0].connections[RIGHT] = OUT
          /\ board.islands[0].connections[DOWN] = OUT
          /\ emitted = <<>>
          /\ ~AtCheck

C9_Witness ==
    /\ board.num_islands = 1
    /\ board.islands[0].expectbridges = MAX_EXPECTED_BRIDGES
    /\ pc = "done"

\* (row, col) comes strictly after the position of island i in row-major order.
After(b, i, row, col) ==
    b.islands[i].row < row \/ (b.islands[i].row = row /\ b.islands[i].col < col)

\* C10: add_island rejects, leaving the board as it is, every call whose row
\* or column is negative or at or above CHAR_MAX, whose position does not
\* come strictly after that of the last island, or whose expected count is
\* outside 1..MAX_EXPECTED_BRIDGES; and the stored islands are strictly
\* increasing in (row, col), so no two share a position.
C10_AddIsland ==
    /\ pc = "build" =>
          \A row \in RowInputs, col \in ColInputs, e \in WideExpectInputs :
             (\/ row < 0 \/ col < 0 \/ row >= CHAR_MAX \/ col >= CHAR_MAX
              \/ board.num_islands > 0
                    /\ ~After(board, board.num_islands - 1, row, col)
              \/ e \notin 1 .. MAX_EXPECTED_BRIDGES)
             => add_island(board, row, col, e) = [ret |-> FALSE, board |-> board]
    /\ \A i, j \in IslandsOf(board) :
          i < j => After(board, i, board.islands[j].row, board.islands[j].col)

\* A call was rejected on a board whose last island leaves room before it,
\* in its row and in the rows above.
C10_Witness ==
    /\ pc = "exit"
    /\ call = [op |-> "add_island", ret |-> FALSE]
    /\ board.num_islands >= 1
    /\ board.islands[board.num_islands - 1].row > 0
    /\ board.islands[board.num_islands - 1].col > 0

\* The progress of the call of the search for island k (k = num_islands:
\* the call that checks): 0 when it is not open, the bridges of the island's
\* right connection plus 1 when it has filled the island and is in its loop,
\* and more than that when it has just been entered.
RankBase == MAX_CONNECTION_BRIDGES + 3
RankAt(k) ==
    IF pc = "call" /\ k = idx THEN RankBase - 1
    ELSE IF k < board.num_islands /\ (k < idx \/ (k = idx /\ pc = "resume"))
         THEN Conn(board, board.islands[k].connections[RIGHT]).bridges + 1
         ELSE 0

RECURSIVE RankUpTo(_)
\* The progress of the calls for islands 0..k, the outer calls weighing more.
RankUpTo(k) == IF k < 0 THEN 0 ELSE RankUpTo(k - 1) * RankBase + RankAt(k)

Rank == RankUpTo(board.num_islands)

\* C11: once find_solutions_from_island(board, 0) is called on a built board
\* it returns: every call of the search, whatever fill_bridges and
\* reorder_bridges answer, leads to the return of the outermost call to main
\* with no call of the search left open; and every step of the search
\* lowers a measure that is a natural number, the outer islands' right
\* bridges weighing more than the inner ones'.
C11_Terminates ==
    /\ Searching ~> (pc = "done" /\ stack = <<>>)
    /\ [][Searching => Rank' < Rank /\ Rank' >= 0]_vars

\* The outermost call has returned from a search that emitted a solution on
\* a full board with an island that has an island to its right and one below.
C11_Witness ==
    /\ pc = "done"
    /\ stack = <<>>
    /\ board.num_islands = MaxIslands
    /\ Len(emitted) >= 1
    /\ \E i \in IslandsOf(board) :
          /\ board.islands[i].connections[RIGHT] # OUT
          /\ board.islands[i].connections[DOWN] # OUT

\* C12: after every add_island, add_bridge and del_bridge, so at every point
\* of the construction and of the search, which changes the board by these
\* calls only, each island's pendbridges is at least 0 and is its
\* expectbridges minus the bridges of its four connections; so it is 0
\* exactly when these bridges sum to expectbridges.
C12_Pending ==
    \A i \in IslandsOf(board) :
        /\ board.islands[i].pendbridges >= 0
        /\ board.islands[i].pendbridges
              = board.islands[i].expectbridges - IncidentBridges(board, i)
        /\ board.islands[i].pendbridges = 0
              <=> IncidentBridges(board, i) = board.islands[i].expectbridges

\* Bridge calls have run; one island is complete through two of its
\* connections and another has bridges and still lacks some.
C12_Witness ==
    /\ pc = "api"
    /\ \E i, j \in IslandsOf(board) :
          /\ board.islands[i].pendbridges = 0
          /\ \E d1, d2 \in Dirs :
                /\ d1 # d2
                /\ Conn(board, board.islands[i].connections[d1]).bridges > 0
                /\ Conn(board, board.islands[i].connections[d2]).bridges > 0
          /\ board.islands[j].pendbridges > 0
          /\ IncidentBridges(board, j) > 0

\* The conditions under which a bridge may not be added to connection c,
\* read from the counts and from the positions of the islands.
AddRefused(b, c) ==
    \/ Conn(b, c).bridges = MAX_CONNECTION_BRIDGES
    \/ Island(b, Conn(b, c).ppendbridges1).pendbridges = 0
    \/ Island(b, Conn(b, c).ppendbridges2).pendbridges = 0
    \/ /\ c # OUT
       /\ \E c2 \in RealConnections(b) :
             Crossing(b, c, c2) /\ b.connections[c2].bridges > 0

\* C13: on every board reached by add_island, add_bridge and del_bridge
\* calls and for every connection, add_bridge returns false exactly when the
\* connection has 2 bridges, or an island at one of its ends has no bridge
\* pending, or a connection that crosses it has bridges; del_bridge returns
\* false exactly when the connection has no bridge; and a call that returns
\* false leaves the whole board as it was.
C13_Failure ==
    \A c \in Connections(board) :
        LET a == add_bridge(board, c)
            d == del_bridge(board, c)
        IN /\ ~a.ret <=> AddRefused(board, c)
           /\ ~d.ret <=> Conn(board, c).bridges = 0
           /\ ~a.ret => a.board = board
           /\ ~d.ret => d.board = board

\* Bridge calls have run and add_bridge is refused on a connection for the
\* one reason that a connection crossing it has a bridge, and on another
\* for the one reason that an island at its end is complete.
C13_Witness ==
    /\ pc = "api"
    /\ \E c, c2 \in RealConnections(board) :
          /\ Crossing(board, c, c2)
          /\ board.connections[c2].bridges = 1
          /\ board.connections[c].bridges = 0
          /\ \A i \in Ends(board, c) : board.islands[i].pendbridges > 0
          /\ ~add_bridge(board, c).ret
    /\ \E c \in RealConnections(board) :
          /\ board.connections[c].bridges = 1
          /\ \E i \in Ends(board, c) : board.islands[i].pendbridges = 0
          /\ ~add_bridge(board, c).ret

\* C14: when a call find_solutions_from_island(board, idx) returns, after
\* fill_bridges failed, after reorder_bridges found no other ordering, or
\* after the check, every connection has the bridges and every island the
\* pendbridges it had when that call was entered; the calls of the search
\* that are open are those of islands 0..idx.
C14_Restored ==
    /\ [][(pc = "call" /\ pc' # "call")
             => Snapshot(board') = Snapshot(board)]_vars
    /\ [][(pc = "resume" /\ pc' # "call")
             => Snapshot(board') = stack[Len(stack)]]_vars
    /\ [](pc = "resume" => Len(stack) = idx + 1)
    /\ [](pc = "call" => Len(stack) = idx)

\* The outermost call has returned after reorder_bridges found no other
\* ordering for island 0: it had filled it, since a solution was emitted.
C14_Witness ==
    /\ pc = "done"
    /\ Len(emitted) >= 1
    /\ board.num_islands = MaxIslands
    /\ \A c \in RealConnections(board) : board.connections[c].bridges = 0
    /\ \A i \in IslandsOf(board) :
          board.islands[i].pendbridges = board.islands[i].expectbridges

\* The bridges of the connection of island i in direction dir.
Forward(b, i, dir) == Conn(b, b.islands[i].connections[dir]).bridges

\* The down connection of island i takes a bridge once one bridge is taken
\* off its right connection.
DownAccepts(b, i) ==
    ~AddRefused(del_bridge(b, b.islands[i].connections[RIGHT]).board,
                b.islands[i].connections[DOWN])

\* C15: reorder_bridges called by the search on island idx, whose right and
\* down connections have r and d bridges: if r >= 1 and the down connection
\* takes one more bridge, it returns true (the search calls itself for
\* idx + 1) with r - 1 and d + 1 bridges on them and pendbridges still 0;
\* otherwise it returns false (the call returns) with no bridge on
\* either.  So each successful call lowers r by one and keeps r + d.
C15_Reorder ==
    [][pc = "resume" =>
         LET r == Forward(board, idx, RIGHT)
             d == Forward(board, idx, DOWN)
         IN IF r >= 1 /\ DownAccepts(board, idx)
            THEN /\ pc' = "call"
                 /\ Forward(board', idx, RIGHT) = r - 1
                 /\ Forward(board', idx, DOWN) = d + 1
                 /\ board.islands[idx].pendbridges = 0
                 /\ board'.islands[idx].pendbridges = 0
            ELSE /\ pc' # "call"
                 /\ Forward(board', idx, RIGHT) = 0
                 /\ Forward(board', idx, DOWN) = 0]_vars

\* Island 0 expects 2 bridges and has one to its right, where fill_bridges
\* had put both as the island there expects 2 or more, and one down: a
\* state only a successful reorder_bridges leads to.
C15_Witness ==
    /\ pc = "call"
    /\ idx = 1
    /\ board.num_islands = MaxIslands
    /\ board.islands[0].expectbridges = 2
    /\ Forward(board, 0, RIGHT) = 1
    /\ Forward(board, 0, DOWN) = 1
    /\ board.islands[board.islands[0].islands[RIGHT]].expectbridges >= 2

\* The pendbridges of the island in direction dir of island i.
NeighborPend(b, i, dir) == Island(b, b.islands[i].islands[dir]).pendbridges

\* C16: fill_bridges called by the search on island idx: when it returns
\* false (the call returns) the bridges of the island's right and down
\* connections and the pendbridges of the island and of the islands to its
\* right and below are what they were before the call; when it returns true
\* (the search calls itself for idx + 1) the island's pendbridges is 0.
C16_Fill ==
    [][(pc = "call" /\ idx < board.num_islands) =>
         IF pc' = "call"
         THEN idx' = idx + 1 /\ board'.islands[idx].pendbridges = 0
         ELSE /\ \A dir \in {RIGHT, DOWN} :
                    /\ Forward(board', idx, dir) = Forward(board, idx, dir)
                    /\ NeighborPend(board', idx, dir)
                          = NeighborPend(board, idx, dir)
              /\ board'.islands[idx].pendbridges
                    = board.islands[idx].pendbridges]_vars

\* A call of the search has returned, for an island that lacks 2 bridges or
\* more and whose one forward connection takes a bridge, but one only:
\* fill_bridges added it, failed and took it back.
C16_Witness ==
    /\ pc = "resume"
    /\ idx + 1 < board.num_islands
    /\ LET j == idx + 1 IN
          /\ board.islands[j].connections[DOWN] = OUT
          /\ board.islands[j].connections[RIGHT] # OUT
          /\ board.islands[j].pendbridges >= 2
          /\ NeighborPend(board, j, RIGHT) = 1
          /\ ~AddRefused(board, board.islands[j].connections[RIGHT])
          /\ Forward(board, j, RIGHT) = 0

\* C17: a call of fill_bridges or reorder_bridges on island idx changes the
\* bridges of no connection but the island's right and down ones; and in
\* every step of the search the left and up connections of the islands
\* 0..idx, which are the islands the search has started on and has not
\* backtracked past, keep their bridges.
C17_Frame ==
    /\ [][((pc = "call" /\ idx < board.num_islands) \/ pc = "resume") =>
             /\ \A c \in RealConnections(board) :
                    c \notin {board.islands[idx].connections[RIGHT],
                              board.islands[idx].connections[DOWN]}
                    => board'.connections[c].bridges
                         = board.connections[c].bridges
             /\ board'.out_connection_st = board.out_connection_st]_vars
    /\ [][Searching =>
             \A i \in IslandsOf(board) :
                i <= idx =>
                   /\ Forward(board', i, LEFT) = Forward(board, i, LEFT)
                   /\ Forward(board', i, UP) = Forward(board, i, UP)]_vars

\* The search is back in the loop of an island that has bridges to its
\* left, up and down: calls for the islands after it have run meanwhile.
C17_Witness ==
    /\ pc = "resume"
    /\ Forward(board, idx, LEFT) > 0
    /\ Forward(board, idx, UP) > 0
    /\ Forward(board, idx, DOWN) > 0

\* Islands i and j are on one row or one column with no island strictly
\* between them.
Adjacent(b, i, j) ==
    /\ i # j
    /\ \/ /\ b.islands[i].row = b.islands[j].row
          /\ ~\E k \in IslandsOf(b) :
                /\ b.islands[k].row = b.islands[i].row
                /\ Between(b.islands[k].col, b.islands[i].col, b.islands[j].col)
       \/ /\ b.islands[i].col = b.islands[j].col
          /\ ~\E k \in IslandsOf(b) :
                /\ b.islands[k].col = b.islands[i].col
                /\ Between(b.islands[k].row, b.islands[i].row, b.islands[j].row)

\* The island next to island i in direction dir, by the positions; OUT when
\* there is none.
Nearest(b, i, dir) ==
    LET me == b.islands[i]
        S == {j \in IslandsOf(b) :
                /\ Adjacent(b, i, j)
                /\ CASE dir = LEFT -> /\ b.islands[j].row = me.row
                                      /\ b.islands[j].col < me.col
                     [] dir = RIGHT -> /\ b.islands[j].row = me.row
                                       /\ b.islands[j].col > me.col
                     [] dir = UP -> /\ b.islands[j].col = me.col
                                    /\ b.islands[j].row < me.row
                     [] OTHER -> /\ b.islands[j].col = me.col
                                 /\ b.islands[j].row > me.row}
    IN IF S = {} THEN OUT ELSE CHOOSE j \in S : TRUE

\* The direction opposite to dir.
Opposite(dir) == (DIRECTIONS - 1) - dir

\* C18: after any successful add_island calls, every real connection joins
\* two islands of one row or one column with no island strictly between
\* them; every slot of every island holds the nearest island in its
\* direction, or the outside island when there is none, and with it the
\* outside connection; and the connection in an island's left or up slot is
\* the one in the right or down slot of the island it leads to, which leads
\* back.
C18_Neighbors ==
    /\ \A c \in RealConnections(board) :
          /\ Ends(board, c) \subseteq IslandsOf(board)
          /\ \E i, j \in Ends(board, c) : Adjacent(board, i, j)
    /\ \A i \in IslandsOf(board), dir \in Dirs :
          LET n == board.islands[i].islands[dir]
              c == board.islands[i].connections[dir]
          IN /\ n = Nearest(board, i, dir)
             /\ n = OUT <=> c = OUT
             /\ n # OUT =>
                   /\ c \in RealConnections(board)
                   /\ Ends(board, c) = {i, n}
                   /\ board.islands[n].connections[Opposite(dir)] = c
                   /\ board.islands[n].islands[Opposite(dir)] = i

\* Three islands on one column, so that the outer two are not joined, and
\* an island that starts a row with islands stored before it.
C18_Witness ==
    /\ board.num_islands = BuildMaxIslands
    /\ \E i, j, k \in IslandsOf(board) :
          /\ board.islands[i].col = board.islands[j].col
          /\ board.islands[j].col = board.islands[k].col
          /\ i < j /\ j < k
    /\ \E i \in IslandsOf(board) :
          i > 0 /\ board.islands[i].islands[LEFT] = OUT

\* The connections whose bridges the crossing list of connection c points at.
Crossers(b, c) ==
    {b.connections[c].firstcross[k] : k \in DOMAIN b.connections[c].firstcross}

\* C19: after any successful add_island calls, the crossing list of a
\* horizontal connection h references a vertical connection v exactly when
\* h's row is strictly between the rows of v's islands and v's column
\* strictly between the columns of h's islands; v's list then references
\* h; and the lists reference nothing else.
C19_Crosses ==
    /\ \A c1, c2 \in RealConnections(board) :
          /\ c2 \in Crossers(board, c1)
                <=> (CrossesAt(board, c1, c2) \/ CrossesAt(board, c2, c1))
          /\ c2 \in Crossers(board, c1) => c1 \in Crossers(board, c2)
    /\ \A c \in RealConnections(board) :
          Crossers(board, c) \subseteq RealConnections(board)
    /\ board.out_connection_st.firstcross = <<>>

\* The build has recorded that a vertical connection crosses two horizontal
\* ones, with the four elements this takes.
C19_Witness ==
    /\ pc = "build"
    /\ board.num_crosselems = 4
    /\ \E h1, h2, v \in RealConnections(board) :
          /\ h1 # h2
          /\ CrossesAt(board, h1, v)
          /\ CrossesAt(board, h2, v)
          /\ Crossers(board, v) = {h1, h2}
          /\ Len(board.connections[v].firstcross) = 2

\* No cell of the visited matrix is true and visitedlimit is 0.
Unvisited(b) == b.visitedmatrix = {} /\ b.visitedlimit = 0

\* C20 as claimed: at every entry to check_connected_solution and at every
\* return from it, every cell of the visited matrix is false and
\* visitedlimit is 0.
C20_Original ==
    /\ AtCheck => Unvisited(board)
    /\ (pc \in {"resume", "done"} /\ Len(emitted) > 0) => Unvisited(board)

\* C20, amended: at every entry to check_connected_solution and at every
\* return from it every cell of the visited matrix is false; visitedlimit
\* is 0 at every return and stays 0 from then on, so it is 0 at every entry
\* but the first, where it still holds what main's uninitialized hboard
\* held; no step but a check writes visitedlimit, and the check sets it to
\* 0 before it reads it.
C20_Unvisited ==
    /\ [](board.visitedmatrix = {})
    /\ [][AtCheck => Unvisited(board')]_vars
    /\ [][~AtCheck => board'.visitedlimit = board.visitedlimit]_vars
    /\ [](board.visitedlimit \in Indeterminate \cup {0})

\* A check is entered after an earlier one accepted a solution on a full
\* board.
C20_Witness ==
    /\ AtCheck
    /\ Len(emitted) >= 1
    /\ board.num_islands = MaxIslands
    /\ Unvisited(board)

\* C21: at every entry to find_solutions_from_island(board, idx) in a search
\* started with idx 0 on a freshly built board, every island before idx has
\* pendbridges 0 and the right and down connections of every island from
\* idx on have no bridge.
C21_Entry ==
    pc = "call" =>
        \A i \in IslandsOf(board) :
            /\ i < idx => board.islands[i].pendbridges = 0
            /\ i >= idx =>
                  /\ Forward(board, i, RIGHT) = 0
                  /\ Forward(board, i, DOWN) = 0

\* The search enters an island in the middle of a full board once more,
\* after it emitted a solution; an island before it has a bridge down, and
\* an island from it on has a bridge to its left or up.
C21_Witness ==
    /\ pc = "call"
    /\ idx > 0
    /\ idx < board.num_islands
    /\ board.num_islands = MaxIslands
    /\ Len(emitted) >= 1
    /\ \E i \in IslandsOf(board) : i < idx /\ Forward(board, i, DOWN) > 0
    /\ \E i \in IslandsOf(board) :
          /\ i >= idx
          /\ Forward(board, i, LEFT) + Forward(board, i, UP) > 0
          /\ board.islands[i].pendbridges > 0
====
